---- MODULE Spec2Model ----
(***************************************************************************)
(* fspathtree: filesystem-path addressing into a tree of dicts and lists.  *)
(*                                                                         *)
(* Python objects live in a heap (a sequence of container objects, an     *)
(* object's identity is its index); a value is an int, None, a text       *)
(* string or a reference to a container.  A key such as "a/../b" is       *)
(* represented by its '/'-separated tokens and a flag saying whether it   *)
(* starts with '/'.                                                        *)
(***************************************************************************)
EXTENDS Integers, Sequences, FiniteSets, TLC

VARIABLES heap, root, self, call

vars == <<heap, root, self, call>>

\* Longest key, in tokens, that a caller passes.
MaxLen == 3

(***************************************************************************)
(* Values and containers                                                   *)
(***************************************************************************)
IntVal(n) == [t |-> "int", v |-> n]
NoneVal == [t |-> "None", v |-> 0]
\* A text string of n characters (its characters are not told apart).
StrVal(n) == [t |-> "str", v |-> n]
\* A reference to the container heap[i].
Ref(i) == [t |-> "ref", v |-> i]

MappingNodeType == [type |-> "dict", keys |-> <<>>, vals |-> <<>>]
SequenceNodeType == [type |-> "list", keys |-> <<>>, vals |-> <<>>]
DefaultNodeType == MappingNodeType

\* isinstance(x, collections.abc.Mapping)
isMapping(h, x) == x.t = "ref" /\ h[x.v].type = "dict"
\* isinstance(x, collections.abc.Sequence): a list, and also a str
isSequence(h, x) == \/ x.t = "ref" /\ h[x.v].type = "list"
                    \/ x.t = "str"

\* len(x) of a sequence
len(h, x) == IF x.t = "str" THEN x.v ELSE Len(h[x.v].vals)

\* x[i] of a sequence, 0-based; a str yields a one-character str
seq_at(h, x, i) == IF x.t = "str" THEN StrVal(1) ELSE h[x.v].vals[i + 1]

\* the position of key k in dict d's insertion order, 0 when absent
RECURSIVE key_pos(_, _, _)
key_pos(keys, k, i) ==
    IF i > Len(keys) THEN 0
    ELSE IF keys[i] = k THEN i
    ELSE key_pos(keys, k, i + 1)

\* k in d
dict_has(h, x, k) == key_pos(h[x.v].keys, k, 1) # 0
\* d[k]
dict_at(h, x, k) == h[x.v].vals[key_pos(h[x.v].keys, k, 1)]

\* a variant of the store that leaves the dict with the stored entry alone
dict_set_alone(h, x, k, val) ==
    [h EXCEPT ![x.v].keys = <<k>>, ![x.v].vals = <<val>>]

\* d[k] = val: an existing key keeps its place, a new key goes last
dict_set(h, x, k, val) ==
    LET d == h[x.v]
        p == key_pos(d.keys, k, 1)
    IN IF p # 0
       THEN [h EXCEPT ![x.v].vals[p] = val]
       ELSE [h EXCEPT ![x.v].keys = Append(d.keys, k),
                      ![x.v].vals = Append(d.vals, val)]

\* l[i] = val, 0-based, i < len(l)
list_set(h, x, i, val) == [h EXCEPT ![x.v].vals[i + 1] = val]

\* l.append(val)
list_append(h, x, val) == [h EXCEPT ![x.v].vals = Append(@, val)]

\* a new container object; its reference is Ref(Len(h) + 1)
new_object(h, obj) == Append(h, obj)

(***************************************************************************)
(* Segments                                                                *)
(***************************************************************************)
up == ".."
current == "."

\* int(s) for the segments made of decimal digits
IntOf == ("0" :> 0) @@ ("1" :> 1) @@ ("2" :> 2)
\* the segment U+00B2, superscript two: a numeric character that is not a
\* decimal digit
superscript == "^2"
\* str.isnumeric()
isnumeric(s) == s \in DOMAIN IntOf \cup {superscript}
\* int(s) raises ValueError for a string that is not a decimal literal
int_raises(s) == s \notin DOMAIN IntOf
\* str(i)
StrOf(i) == CHOOSE s \in DOMAIN IntOf : IntOf[s] = i

Names == {"a", "b"}
Segments == Names \cup DOMAIN IntOf \cup {up}

RECURSIVE SeqsUpTo(_, _)
SeqsUpTo(S, n) ==
    IF n = 0 THEN {<<>>}
    ELSE LET shorter == SeqsUpTo(S, n - 1)
         IN shorter \cup {Append(s, x) : s \in shorter, x \in S}

\* The keys a caller passes: '/'-separated tokens, with or without a leading '/'
\* ("a/../0", "/b/1", "./a", "", ".").
KeyTokens ==
    SeqsUpTo(Segments, MaxLen)
        \cup {<<current>> \o s : s \in SeqsUpTo(Segments, MaxLen - 1)}
Keys == [abs : BOOLEAN, toks : KeyTokens]
\* The lists of path elements handed to _normalize_path_parts: '.' anywhere.
PartsLists == SeqsUpTo(Segments \cup {current}, MaxLen)
\* The paths of nodes: absolute, no '.' and no '..'.
NodePaths == {k \in Keys : k.abs /\ \A i \in DOMAIN k.toks : k.toks[i] \notin {up, current}}

(***************************************************************************)
(* Paths (PurePosixPath)                                                   *)
(***************************************************************************)
\* PathType(...): pathlib drops the empty and the '.' components when it parses
PathType(abs, toks) ==
    [abs |-> abs, parts |-> SelectSeq(toks, LAMBDA s : s # current)]

\* given a str (or a list of path elements), return a PathType
_make_path(key) == PathType(key.abs, key.toks)

\* a variant of the join that forgets the base path
join_key_only(a, b) == b

\* a / b : an absolute b replaces a
join(a, b) == IF b.abs THEN b ELSE [abs |-> a.abs, parts |-> a.parts \o b.parts]

\* path.relative_to("/")
relative_to_root(path) == [abs |-> FALSE, parts |-> path.parts]

RootPath == [abs |-> TRUE, parts |-> <<>>]

\* a variant of the scan that appends '.' like any other part
RECURSIVE scan_parts_keeps_current(_, _)
scan_parts_keeps_current(rest, norm_parts) ==
    IF rest = <<>> THEN [ok |-> TRUE, parts |-> norm_parts]
    ELSE LET p == Head(rest)
         IN IF p = up
            THEN IF Len(norm_parts) < 1
                 THEN [ok |-> FALSE, parts |-> <<>>]
                 ELSE scan_parts_keeps_current(Tail(rest),
                          SubSeq(norm_parts, 1, Len(norm_parts) - 1))
            ELSE scan_parts_keeps_current(Tail(rest), Append(norm_parts, p))

\* a variant of the scan that stays at the top when a '..' has nothing to cancel
RECURSIVE scan_parts_clamped(_, _)
scan_parts_clamped(rest, norm_parts) ==
    IF rest = <<>> THEN [ok |-> TRUE, parts |-> norm_parts]
    ELSE LET p == Head(rest)
         IN IF p = current THEN scan_parts_clamped(Tail(rest), norm_parts)
            ELSE IF p = up
                 THEN IF Len(norm_parts) < 1
                      THEN scan_parts_clamped(Tail(rest), norm_parts)
                      ELSE scan_parts_clamped(Tail(rest),
                               SubSeq(norm_parts, 1, Len(norm_parts) - 1))
            ELSE scan_parts_clamped(Tail(rest), Append(norm_parts, p))

\* for p in parts: '.' is skipped, '..' pops norm_parts, anything else is appended
RECURSIVE scan_parts(_, _)
scan_parts(rest, norm_parts) ==
    IF rest = <<>> THEN [ok |-> TRUE, parts |-> norm_parts]
    ELSE LET p == Head(rest)
         IN IF p = current THEN scan_parts(Tail(rest), norm_parts)
            ELSE IF p = up
                 THEN IF Len(norm_parts) < 1
                      THEN [ok |-> FALSE, parts |-> <<>>]
                      ELSE scan_parts(Tail(rest),
                                      SubSeq(norm_parts, 1, Len(norm_parts) - 1))
            ELSE scan_parts(Tail(rest), Append(norm_parts, p))

\* ok = FALSE stands for the None that is returned when a '..' has nothing to cancel
_normalize_path_parts(parts) ==
    IF \A i \in DOMAIN parts : parts[i] # up /\ parts[i] # current
    THEN [ok |-> TRUE, parts |-> parts]
    ELSE scan_parts(parts, <<>>)

\* path.parts: the first part of an absolute path is its root, '/'
parts_of(path) == IF path.abs THEN <<"/">> \o path.parts ELSE path.parts

\* PathType(*parts)
from_parts(parts) ==
    IF parts # <<>> /\ parts[1] = "/"
    THEN [abs |-> TRUE, parts |-> Tail(parts)]
    ELSE [abs |-> FALSE, parts |-> parts]

\* normalize_path(path): the normalized PathType, ok = FALSE for None
normalize_path(path) ==
    LET n == _normalize_path_parts(parts_of(path))
    IN IF ~n.ok THEN [ok |-> FALSE, abs |-> FALSE, parts |-> <<>>]
       ELSE [ok |-> TRUE, abs |-> from_parts(n.parts).abs,
             parts |-> from_parts(n.parts).parts]

(***************************************************************************)
(* Outcomes of a call: a returned value or a raised exception.            *)
(*   exc   "" or the exception's class                                    *)
(*   val   the returned value                                             *)
(*   arg   the exception's args[0] as it is rendered in a message         *)
(*   path  the path quoted in the message                                 *)
(*   rest  the remaining_parts of an UnrecognizedParentNodeType           *)
(*   at    the parts a NodeError names as the place of the failure        *)
(*   view  the View (tree, abspath, root) a read returns around a branch  *)
(***************************************************************************)
NoKey == [abs |-> FALSE, toks |-> <<>>]
NoView == [tree |-> NoneVal, abspath |-> [abs |-> FALSE, parts |-> <<>>],
           root |-> NoneVal]
Return(val) ==
    [exc |-> "", val |-> val, arg |-> "", path |-> NoKey, rest |-> <<>>,
     at |-> <<>>, view |-> NoView]
Raise(exc, arg) ==
    [exc |-> exc, val |-> NoneVal, arg |-> arg, path |-> NoKey, rest |-> <<>>,
     at |-> <<>>, view |-> NoView]

\* a PathType handed on as a key
as_key(path) == [abs |-> path.abs, toks |-> path.parts]

(***************************************************************************)
(* Reading                                                                 *)
(***************************************************************************)
RECURSIVE _getitem_from_path_parts_imp(_, _, _)
_getitem_from_path_parts_imp(h, tree, path_parts) ==
    IF isMapping(h, tree)
    THEN IF path_parts = <<>> THEN Raise("IndexError", "index out of range")
         ELSE IF dict_has(h, tree, path_parts[1])
              THEN LET node == dict_at(h, tree, path_parts[1])
                   IN IF Len(path_parts) = 1 THEN Return(node)
                      ELSE _getitem_from_path_parts_imp(h, node, Tail(path_parts))
              ELSE Raise("KeyError", path_parts[1])
    ELSE IF isSequence(h, tree)
    THEN IF path_parts = <<>> THEN Raise("IndexError", "index out of range")
         ELSE IF isnumeric(path_parts[1])
              THEN IF int_raises(path_parts[1])
                   THEN Raise("ValueError", "invalid literal for int()")
                   ELSE
                   LET idx == IntOf[path_parts[1]]
                   IN IF len(h, tree) > idx
                      THEN LET node == seq_at(h, tree, idx)
                           IN IF Len(path_parts) = 1 THEN Return(node)
                              ELSE _getitem_from_path_parts_imp(h, node, Tail(path_parts))
                      ELSE Raise("InvalidIndexError", StrOf(idx))
              ELSE Raise("ValueError", path_parts[1])
    ELSE [Raise("UnrecognizedParentNodeType", tree.t) EXCEPT !.rest = path_parts]

\* error_node_path_parts = [p for p in path_parts if p not in e.remaining_parts]
error_node_path_parts(path_parts, remaining_parts) ==
    SelectSeq(path_parts,
              LAMBDA p : \A i \in DOMAIN remaining_parts : remaining_parts[i] # p)

_getitem_from_path_parts(h, tree, parts) ==
    LET n == _normalize_path_parts(parts)
    IN IF ~n.ok THEN Raise("PathGoesAboveRoot", "")
       ELSE LET r == _getitem_from_path_parts_imp(h, tree, n.parts)
            IN IF r.exc = "UnrecognizedParentNodeType"
               THEN [Raise("NodeError", r.arg) EXCEPT
                        !.at = error_node_path_parts(n.parts, r.rest),
                        !.path = [abs |-> FALSE, toks |-> n.parts]]
               ELSE r

\* the except clauses: same class, message built from original_path and args[0]
annotate(r, original_path) ==
    IF r.exc \in {"KeyError", "InvalidIndexError", "IndexError", "ValueError"}
    THEN [r EXCEPT !.path = original_path]
    ELSE r

\* getitem(tree, path): path is a key or a PathType; original_path = copy.copy(path)
getitem(h, tree, key) ==
    LET original_path == key
        path == _make_path(key)
        rel == IF path.abs THEN relative_to_root(path) ELSE path
    IN IF rel.parts = <<>> THEN Return(tree)
       ELSE annotate(_getitem_from_path_parts(h, tree, rel.parts), original_path)

(***************************************************************************)
(* Writing.  A write works on the heap in place: its outcome is the heap  *)
(* it leaves and what it returned or raised.                              *)
(***************************************************************************)
Out(h, r) == [h |-> h, r |-> r]

\* a variant that makes a dict whatever the key
_make_node_type_for_key_always_map(key) == MappingNodeType

\* str.isnumeric() decides between a list and a dict
_make_node_type_for_key(key) ==
    IF isnumeric(key) THEN SequenceNodeType ELSE MappingNodeType

\* a variant of the padding that appends one None too many
RECURSIVE append_none_one_more(_, _, _)
append_none_one_more(h, tree, key) ==
    IF len(h, tree) <= key + 1
    THEN IF tree.t = "str"
         THEN Out(h, Raise("AttributeError", "append"))
         ELSE append_none_one_more(list_append(h, tree, NoneVal), tree, key)
    ELSE Out(h, Return(NoneVal))

\* while len(tree) <= key: tree.append(None)      (a str has no append)
RECURSIVE append_none(_, _, _)
append_none(h, tree, key) ==
    IF len(h, tree) <= key
    THEN IF tree.t = "str"
         THEN Out(h, Raise("AttributeError", "append"))
         ELSE append_none(list_append(h, tree, NoneVal), tree, key)
    ELSE Out(h, Return(NoneVal))

\* tree[key] = val on a sequence      (a str does not support item assignment)
seq_setitem(h, tree, key, val) ==
    IF tree.t = "str"
    THEN Out(h, Raise("TypeError", "item assignment"))
    ELSE Out(list_set(h, tree, key, val), Return(NoneVal))

\* tree[key] = a new, empty node
store_new(h, tree, key, node_type) ==
    LET h1 == new_object(h, node_type)
    IN IF isMapping(h, tree)
       THEN Out(dict_set(h1, tree, key, Ref(Len(h1))), Return(NoneVal))
       ELSE seq_setitem(h1, tree, key, Ref(Len(h1)))

\* the node has been set to a scalar before: return an empty node of the
\* type the next key asks for, for the caller to put in its place
upgraded_node(h, path_parts) ==
    LET h1 == new_object(h, IF isnumeric(path_parts[1])
                            THEN SequenceNodeType ELSE MappingNodeType)
    IN Out(h1, Return(Ref(Len(h1))))

RECURSIVE _setitem_from_path_parts_imp(_, _, _, _)

\* a variant that puts the upgraded node in place and does not write into it
descend_once(h, tree, key, child, path_parts, value) ==
    LET o == _setitem_from_path_parts_imp(h, child, Tail(path_parts), value)
    IN IF o.r.exc # "" \/ o.r.val = NoneVal THEN o
       ELSE IF isMapping(o.h, tree)
            THEN Out(dict_set(o.h, tree, key, o.r.val), Return(NoneVal))
            ELSE seq_setitem(o.h, tree, key, o.r.val)

\* result = imp(tree[key], path_parts[1:], value)
\* if result is not None: tree[key] = result; imp(tree[key], path_parts[1:], value)
descend(h, tree, key, child, path_parts, value) ==
    LET o == _setitem_from_path_parts_imp(h, child, Tail(path_parts), value)
    IN IF o.r.exc # "" \/ o.r.val = NoneVal THEN o
       ELSE LET s == IF isMapping(o.h, tree)
                     THEN Out(dict_set(o.h, tree, key, o.r.val), Return(NoneVal))
                     ELSE seq_setitem(o.h, tree, key, o.r.val)
            IN IF s.r.exc # "" THEN s
               ELSE LET o2 == _setitem_from_path_parts_imp(
                                  s.h, o.r.val, Tail(path_parts), value)
                    IN IF o2.r.exc # "" THEN o2 ELSE Out(o2.h, Return(NoneVal))

_setitem_from_path_parts_imp(h, tree, path_parts, value) ==
    IF path_parts = <<>> THEN Out(h, Raise("IndexError", "index out of range"))
    ELSE
    LET key == path_parts[1]
    IN IF isMapping(h, tree)
       THEN IF Len(path_parts) = 1
            THEN Out(dict_set(h, tree, key, value), Return(NoneVal))
            ELSE LET c == IF ~dict_has(h, tree, key)
                          THEN store_new(h, tree, key,
                                         _make_node_type_for_key(path_parts[2]))
                          ELSE Out(h, Return(NoneVal))
                 IN descend(c.h, tree, key, dict_at(c.h, tree, key), path_parts, value)
       ELSE IF isSequence(h, tree)
       THEN IF ~isnumeric(key) THEN Out(h, Raise("ValueError", key))
            ELSE IF int_raises(key)
            THEN Out(h, Raise("ValueError", "invalid literal for int()"))
            ELSE LET idx == IntOf[key]
                     p == append_none(h, tree, idx)
                 IN IF p.r.exc # "" THEN p
                    ELSE IF Len(path_parts) = 1
                    THEN seq_setitem(p.h, tree, idx, value)
                    ELSE LET c == IF seq_at(p.h, tree, idx) = NoneVal
                                  THEN store_new(p.h, tree, idx,
                                           _make_node_type_for_key(path_parts[2]))
                                  ELSE Out(p.h, Return(NoneVal))
                         IN IF c.r.exc # "" THEN c
                            ELSE descend(c.h, tree, idx, seq_at(c.h, tree, idx),
                                         path_parts, value)
       ELSE upgraded_node(h, path_parts)

\* the result of the imp is not handed on: this returns None
_setitem_from_path_parts(h, tree, parts, value) ==
    LET n == _normalize_path_parts(parts)
    IN IF ~n.ok THEN Out(h, Raise("PathGoesAboveRoot", ""))
       ELSE LET o == _setitem_from_path_parts_imp(h, tree, n.parts, value)
            IN IF o.r.exc # "" THEN o ELSE Out(o.h, Return(NoneVal))

\* setitem(tree, path, value): path is a key or a PathType
setitem(h, tree, key, value) ==
    LET original_path == key
        path == _make_path(key)
        rel == IF path.abs THEN relative_to_root(path) ELSE path
        o == _setitem_from_path_parts(h, tree, rel.parts, value)
    IN Out(o.h, annotate(o.r, original_path))

(***************************************************************************)
(* The View: self.tree, self.abspath and self.root                        *)
(***************************************************************************)
\* is_leaf(node): a str is a leaf, a Mapping or a Sequence is not, the rest is
is_leaf(h, node) ==
    IF node.t = "str" THEN TRUE
    ELSE IF isMapping(h, node) \/ isSequence(h, node) THEN FALSE
    ELSE TRUE

\* the value of a node, as Python's == compares two nodes
RECURSIVE value_of(_, _)
value_of(h, x) ==
    IF x.t # "ref" THEN [t |-> x.t, v |-> <<x.v>>]
    ELSE LET o == h[x.v]
         IN IF o.type = "dict"
            THEN [t |-> "dict",
                  v |-> {<<o.keys[i], value_of(h, o.vals[i])>> : i \in DOMAIN o.keys}]
            ELSE [t |-> "list",
                  v |-> [i \in DOMAIN o.vals |-> value_of(h, o.vals[i])]]

\* fspathtree(tree, root=root, abspath=abspath): the two checks of the constructor
__init__(h, tree, rt, abspath) ==
    LET same == value_of(h, tree) = value_of(h, rt)
    IN IF same /\ abspath # [abs |-> TRUE, parts |-> <<>>]
       THEN Raise("RuntimeError", "tree initialized with a root, but abspath is not '/'")
       ELSE IF ~same /\ abspath = [abs |-> TRUE, parts |-> <<>>]
       THEN Raise("RuntimeError", "abspath '/', but the tree and root are not the same")
       ELSE [Return(tree) EXCEPT
                !.view = [tree |-> tree, abspath |-> abspath, root |-> rt]]

\* a variant that retries against the root after any error of the local read
__getitem___retry_any(h, slf, key) ==
    LET path == _make_path(key)
        local == getitem(h, slf.tree, as_key(path))
        r == IF path.abs THEN getitem(h, slf.root, as_key(path))
             ELSE IF local.exc # ""
                  THEN IF slf.abspath = RootPath THEN local
                       ELSE getitem(h, slf.root, as_key(join(slf.abspath, path)))
                  ELSE local
    IN IF r.exc # "" THEN r
       ELSE IF is_leaf(h, r.val) THEN r
       ELSE __init__(h, r.val, slf.root, join(slf.abspath, path))

\* self[key]
__getitem__(h, slf, key) ==
    LET path == _make_path(key)
        local == getitem(h, slf.tree, as_key(path))
        r == IF path.abs THEN getitem(h, slf.root, as_key(path))
             ELSE IF local.exc = "PathGoesAboveRoot"
                  THEN IF slf.abspath = RootPath THEN local
                       ELSE getitem(h, slf.root, as_key(join(slf.abspath, path)))
                  ELSE local
    IN IF r.exc # "" THEN r
       ELSE IF is_leaf(h, r.val) THEN r
       ELSE __init__(h, r.val, slf.root, join(slf.abspath, path))

\* self.get(path, default_value): only KeyError is caught
get(h, slf, path, default_value) ==
    LET r == __getitem__(h, slf, path)
    IN IF r.exc = "KeyError" THEN Return(default_value) ELSE r

\* a variant that writes every key, absolute or not, under the View's own node
__setitem___under_self(h, slf, key, value) ==
    LET path == _make_path(key)
        local == setitem(h, slf.tree, as_key(path), value)
    IN IF local.r.exc = "PathGoesAboveRoot" /\ ~path.abs
       THEN IF slf.abspath = RootPath THEN local
            ELSE setitem(local.h, slf.root, as_key(join(slf.abspath, path)), value)
       ELSE local

\* self[key] = value
__setitem__(h, slf, key, value) ==
    LET path == _make_path(key)
        local == setitem(h, slf.tree, as_key(path), value)
    IN IF path.abs THEN setitem(h, slf.root, as_key(path), value)
       ELSE IF local.r.exc = "PathGoesAboveRoot"
            THEN IF slf.abspath = RootPath THEN local
                 ELSE setitem(local.h, slf.root, as_key(join(slf.abspath, path)), value)
            ELSE local

\* self.path()
path(slf) == normalize_path(slf.abspath)

(***************************************************************************)
(* Enumeration.  A generator is modelled by what it yields, in order, and  *)
(* the exception that ends it ("" when it ends normally).  A callable      *)
(* (predicate or transform) is modelled by the number of its parameters    *)
(* and by what it computes.                                                *)
(***************************************************************************)
Gen(out, exc) == [out |-> out, exc |-> exc]

\* None, passed as predicate or transform
NoCallable == [arity |-> 0, fn |-> "None", pattern |-> "", inner |-> <<>>]
Callable(arity, fn) == [arity |-> arity, fn |-> fn, pattern |-> "", inner |-> <<>>]

\* fnmatch.fnmatchcase(name, pat) for patterns made of characters and '*'
RECURSIVE fnmatchcase(_, _)
fnmatchcase(name, pat) ==
    IF pat = "" THEN name = ""
    ELSE IF SubSeq(pat, 1, 1) = "*"
    THEN \/ fnmatchcase(name, SubSeq(pat, 2, Len(pat)))
         \/ name # "" /\ fnmatchcase(SubSeq(name, 2, Len(name)), pat)
    ELSE /\ name # ""
         /\ SubSeq(name, 1, 1) = SubSeq(pat, 1, 1)
         /\ fnmatchcase(SubSeq(name, 2, Len(name)), SubSeq(pat, 2, Len(pat)))

\* a variant of the match that takes an absolute pattern for a relative one
match_unanchored(pth, pattern) ==
    LET parts == parts_of(pth)
        pat_parts == pattern.parts
        n == Len(parts)
        m == Len(pat_parts)
    IN IF m > n THEN FALSE
       ELSE \A i \in 0 .. (m - 1) : fnmatchcase(parts[n - i], pat_parts[m - i])

\* PurePosixPath.match(pattern), pattern parsed like a path: an absolute
\* pattern asks for as many parts, a relative one matches from the right
match(pth, pattern) ==
    LET parts == parts_of(pth)
        pat_parts == parts_of(pattern)
        n == Len(parts)
        m == Len(pat_parts)
    IN IF pattern.abs /\ ~pth.abs THEN FALSE
       ELSE IF pattern.abs /\ m # n THEN FALSE
       ELSE IF m > n THEN FALSE
       ELSE \A i \in 0 .. (m - 1) :
                (pattern.abs /\ i = m - 1)
                \/ fnmatchcase(parts[n - i], pat_parts[m - i])

\* what the callable c returns for (path, node)
RECURSIVE call_fn(_, _, _, _)
call_fn(h, c, pth, node) ==
    IF c.fn = "is_leaf" THEN is_leaf(h, node)
    ELSE IF c.fn = "is_branch" THEN ~is_leaf(h, node)
    ELSE IF c.fn = "match" THEN match(pth, c.pattern)
    ELSE IF c.fn = "is_leaf and"
    THEN is_leaf(h, node) /\ call_fn(h, c.inner, pth, node)
    ELSE TRUE

\* the predicate part of _get_all_paths: return_path, or the RuntimeError
apply_predicate(h, predicate, root_path, node) ==
    IF predicate = NoCallable THEN [exc |-> "", val |-> TRUE]
    ELSE IF predicate.arity \in {1, 2}
    THEN [exc |-> "", val |-> call_fn(h, predicate, root_path, node)]
    ELSE [exc |-> "RuntimeError", val |-> FALSE]

\* the transform part of _get_all_paths: what is yielded, or the RuntimeError
apply_transform(h, transform, root_path, node) ==
    IF transform = NoCallable
    THEN Gen(<<[path |-> root_path, as |-> "path", node |-> NoneVal]>>, "")
    ELSE IF transform.fn = "type" \/ transform.arity = 1
    THEN Gen(<<[path |-> root_path, as |-> transform.fn, node |-> NoneVal]>>, "")
    ELSE IF transform.arity = 2
    THEN Gen(<<[path |-> root_path, as |-> transform.fn, node |-> node]>>, "")
    ELSE Gen(<<>>, "RuntimeError")

\* root_path / k
child_path(root_path, k) == [abs |-> root_path.abs, parts |-> Append(root_path.parts, k)]

\* the except clause after a failure inside a list: 'for k in node' takes the
\* first element of the list as k, and node[k] or root_path / k fails
list_fallback(h, node) ==
    LET k == seq_at(h, node, 0)
    IN IF k.t = "int" /\ ~(k.v < len(h, node) /\ k.v >= 0 - len(h, node))
       THEN "IndexError"
       ELSE "TypeError"

RECURSIVE _get_all_paths(_, _, _, _, _)
RECURSIVE walk_list(_, _, _, _, _, _)
RECURSIVE walk_dict(_, _, _, _, _, _)

\* for i in range(len(node)): yield from _get_all_paths(node[i], ..., root_path / str(i))
\* inside try ... except: an exception of a child ends in the fallback loop
walk_list(h, node, i, transform, predicate, root_path) ==
    IF i >= len(h, node) THEN Gen(<<>>, "")
    ELSE LET g == _get_all_paths(h, seq_at(h, node, i), transform, predicate,
                                 child_path(root_path, StrOf(i)))
         IN IF g.exc # "" THEN Gen(g.out, list_fallback(h, node))
            ELSE LET rest == walk_list(h, node, i + 1, transform, predicate, root_path)
                 IN Gen(g.out \o rest.out, rest.exc)

\* node[0] raises KeyError on a dict with keys, and the except clause runs
\* for k in node: yield from _get_all_paths(node[k], ..., root_path / k)
walk_dict(h, node, i, transform, predicate, root_path) ==
    IF i > Len(h[node.v].keys) THEN Gen(<<>>, "")
    ELSE LET g == _get_all_paths(h, h[node.v].vals[i], transform, predicate,
                                 child_path(root_path, h[node.v].keys[i]))
         IN IF g.exc # "" THEN g
            ELSE LET rest == walk_dict(h, node, i + 1, transform, predicate, root_path)
                 IN Gen(g.out \o rest.out, rest.exc)

\* a variant of the walk that yields a node after its children
_get_all_paths_children_first(h, node, transform, predicate, root_path) ==
    LET p == apply_predicate(h, predicate, root_path, node)
        y == IF p.val THEN apply_transform(h, transform, root_path, node)
             ELSE Gen(<<>>, "")
    IN IF p.exc # "" THEN Gen(<<>>, p.exc)
       ELSE IF y.exc # "" THEN y
       ELSE IF is_leaf(h, node) THEN y
       ELSE LET c == IF isMapping(h, node)
                     THEN walk_dict(h, node, 1, transform, predicate, root_path)
                     ELSE walk_list(h, node, 0, transform, predicate, root_path)
            IN Gen(c.out \o y.out, c.exc)

_get_all_paths(h, node, transform, predicate, root_path) ==
    LET p == apply_predicate(h, predicate, root_path, node)
        y == IF p.val THEN apply_transform(h, transform, root_path, node)
             ELSE Gen(<<>>, "")
    IN IF p.exc # "" THEN Gen(<<>>, p.exc)
       ELSE IF y.exc # "" THEN y
       ELSE IF is_leaf(h, node) THEN y
       ELSE LET c == IF isMapping(h, node)
                     THEN walk_dict(h, node, 1, transform, predicate, root_path)
                     ELSE walk_list(h, node, 0, transform, predicate, root_path)
            IN Gen(y.out \o c.out, c.exc)

\* a variant of the leaves-only mode that leaves is_leaf out of the predicate
_get_all_leaf_node_paths_any_node(h, node, transform, predicate, root_path) ==
    _get_all_paths(h, node, transform, predicate, root_path)

_get_all_leaf_node_paths(h, node, transform, predicate, root_path) ==
    IF predicate = NoCallable
    THEN _get_all_paths(h, node, transform, Callable(2, "is_leaf"), root_path)
    ELSE IF predicate.arity \in {1, 2}
    THEN _get_all_paths(h, node, transform,
             [arity |-> 2, fn |-> "is_leaf and", pattern |-> "", inner |-> predicate],
             root_path)
    ELSE Gen(<<>>, "RuntimeError")

\* get_all_paths / get_all_leaf_node_paths, the static methods
get_all_paths(h, node, transform, predicate, root_path) ==
    _get_all_paths(h, node, transform, predicate, root_path)

get_all_leaf_node_paths(h, node, transform, predicate, root_path) ==
    _get_all_leaf_node_paths(h, node, transform, predicate, root_path)

\* find(tree, pattern, as_string, root_path)
find(h, tree, pattern, as_string, root_path) ==
    get_all_leaf_node_paths(h, tree,
        IF as_string THEN Callable(1, "type") ELSE NoCallable,
        [arity |-> 1, fn |-> "match", pattern |-> pattern, inner |-> <<>>],
        root_path)

\* a variant that starts every bound enumeration at "/"
instance_root_path_absolute(h, slf) == [abs |-> TRUE, parts |-> <<>>]

\* root_path of the bound methods: "/" when self.tree == self.root, "" otherwise
instance_root_path(h, slf) ==
    IF value_of(h, slf.tree) = value_of(h, slf.root)
    THEN [abs |-> TRUE, parts |-> <<>>]
    ELSE [abs |-> FALSE, parts |-> <<>>]

_instance_get_all_paths(h, slf, transform, predicate) ==
    get_all_paths(h, slf.tree, transform, predicate, instance_root_path(h, slf))

_instance_get_all_leaf_node_paths(h, slf, transform, predicate) ==
    get_all_leaf_node_paths(h, slf.tree, transform, predicate, instance_root_path(h, slf))

_instance_find(h, slf, pattern) ==
    find(h, slf.tree, pattern, FALSE, instance_root_path(h, slf))

\* self[key] = a[key] for one key of a
update_one(h, slf, a, key) ==
    LET v == __getitem__(h, a, key)
    IN IF v.exc # "" THEN Out(h, v) ELSE __setitem__(h, slf, key, v.val)

\* update with a tree as argument: for key in a.get_all_leaf_node_paths():
\* self[key] = a[key]; o is the outcome of one assignment
RECURSIVE update_each(_, _, _, _, _)
update_each(h, slf, a, keys, i) ==
    IF i > Len(keys) THEN Out(h, Return(NoneVal))
    ELSE CHOOSE done \in
             {IF o.r.exc # "" THEN o ELSE update_each(o.h, slf, a, keys, i + 1) :
                  o \in {update_one(h, slf, a, as_key(keys[i].path))}} : TRUE

\* dict.update(d): every entry of d is stored, by reference
RECURSIVE dict_update(_, _, _, _)
dict_update(h, x, d, i) ==
    IF i > Len(h[d.v].keys) THEN h
    ELSE dict_update(dict_set(h, x, h[d.v].keys[i], h[d.v].vals[i]), x, d, i + 1)

\* self.update(a): a is an fspathtree (plain FALSE, a its View) or a plain
\* dict (plain TRUE, a.tree the dict); a list has no update method
update(h, slf, a, plain) ==
    IF ~plain
    THEN LET g == _instance_get_all_leaf_node_paths(h, a, NoCallable, NoCallable)
         IN update_each(h, slf, a, g.out, 1)
    ELSE IF isMapping(h, slf.tree)
    THEN Out(dict_update(h, slf.tree, a.tree, 1), Return(NoneVal))
    ELSE Out(h, Raise("AttributeError", "update"))

(***************************************************************************)
(* The trees a caller wraps                                                *)
(***************************************************************************)
dict(keys, vals) == [type |-> "dict", keys |-> keys, vals |-> vals]
list(vals) == [type |-> "list", keys |-> <<>>, vals |-> vals]

\* {'a': {'a': None, 'b': {'a': 2}}, 'b': [{'a': 3}, None, 'xy']}
NestedDict ==
    [root |-> Ref(1),
     heap |-> << dict(<<"a", "b">>, <<Ref(2), Ref(4)>>),
                 dict(<<"a", "b">>, <<NoneVal, Ref(3)>>),
                 dict(<<"a">>, <<IntVal(2)>>),
                 list(<<Ref(5), NoneVal, StrVal(2)>>),
                 dict(<<"a">>, <<IntVal(3)>>) >>]

\* ['xy', [1], None]
NestedList ==
    [root |-> Ref(1),
     heap |-> << list(<<StrVal(2), Ref(2), NoneVal>>),
                 list(<<IntVal(1)>>) >>]

\* fspathtree(): the default, empty tree
EmptyTree == [root |-> Ref(1), heap |-> <<DefaultNodeType>>]

Fixtures == {NestedDict, NestedList, EmptyTree}

\* the values a caller writes: a scalar or a new dict()
Written(h) ==
    {Out(h, Return(IntVal(7))),
     Out(new_object(h, MappingNodeType), Return(Ref(Len(h) + 1)))}

(***************************************************************************)
(* State: the heap, the root, the View the caller holds and the last call *)
(***************************************************************************)
NoCall == [op |-> "new", key |-> NoKey, value |-> NoneVal, r |-> Return(NoneVal),
           pre |-> <<>>]

\* t = fspathtree(d), or the View t[q] of one of its branch nodes
Init ==
    \E f \in Fixtures, q \in NodePaths :
        LET t == __init__(f.heap, f.root, f.root, RootPath).view
            r == __getitem__(f.heap, t, q)
        IN /\ r.exc = ""
           /\ r.view # NoView
           /\ heap = f.heap
           /\ root = f.root
           /\ self = r.view
           /\ call = NoCall

\* fspathtree.getitem(self.tree, key)
GetItem ==
    /\ call.op = "new"
    /\ \E key \in Keys :
        /\ call' = [op |-> "getitem", key |-> key, value |-> NoneVal,
                    r |-> getitem(heap, self.tree, key), pre |-> heap]
        /\ UNCHANGED <<heap, root, self>>

\* fspathtree.setitem(self.tree, key, value)
SetItem ==
    /\ call.op = "new"
    /\ \E key \in Keys, w \in Written(heap) :
        LET o == setitem(w.h, self.tree, key, w.r.val)
        IN /\ heap' = o.h
           /\ call' = [op |-> "setitem", key |-> key, value |-> w.r.val,
                       r |-> o.r, pre |-> w.h]
           /\ UNCHANGED <<root, self>>

\* self[key]
ViewGetItem ==
    /\ call.op = "new"
    /\ \E key \in Keys :
        /\ call' = [op |-> "__getitem__", key |-> key, value |-> NoneVal,
                    r |-> __getitem__(heap, self, key), pre |-> heap]
        /\ UNCHANGED <<heap, root, self>>

\* the default values a caller passes to get
Defaults == {IntVal(0 - 1)}

\* self.get(key, default_value)
ViewGet ==
    /\ call.op = "new"
    /\ \E key \in Keys, default_value \in Defaults :
        /\ call' = [op |-> "get", key |-> key, value |-> default_value,
                    r |-> get(heap, self, key, default_value), pre |-> heap]
        /\ UNCHANGED <<heap, root, self>>

\* {'a': {'a': 5, 'b': {'b': 7}}, 'b': [8]}: a tree to update another with
Patch ==
    [root |-> Ref(1),
     heap |-> << dict(<<"a", "b">>, <<Ref(2), Ref(4)>>),
                 dict(<<"a", "b">>, <<IntVal(5), Ref(3)>>),
                 dict(<<"b">>, <<IntVal(7)>>),
                 list(<<IntVal(8)>>) >>]

\* the trees passed to update
Sources == Fixtures \cup {Patch}

\* the objects of heap g, placed after n other objects
Shifted(g, n) ==
    [i \in DOMAIN g |->
        [g[i] EXCEPT !.vals = [j \in DOMAIN g[i].vals |->
                                  IF g[i].vals[j].t = "ref"
                                  THEN Ref(g[i].vals[j].v + n)
                                  ELSE g[i].vals[j]]]]

\* the heap with the objects of tree f next to those it holds
Loaded(h, f) == h \o Shifted(f.heap, Len(h))

\* fspathtree(d) over the tree f loaded after n objects, and the Views of
\* its branch nodes
ViewsOfSource(h, f, n) ==
    LET rt == Ref(f.root.v + n)
        t == __init__(h, rt, rt, RootPath).view
        all == get_all_paths(h, rt, NoCallable, NoCallable, RootPath).out
    IN {r.view : r \in {q \in {__getitem__(h, t, as_key(all[i].path)) : i \in DOMAIN all} :
                           q.exc = "" /\ q.view # NoView}}

\* self.update(a), a an fspathtree over another tree or a View of one of its
\* branch nodes; or self.update(d), d a plain dict
Update ==
    /\ call.op = "new"
    /\ \E f \in Sources, plain \in BOOLEAN :
        \E h \in {Loaded(heap, f)} :
            \E a \in ViewsOfSource(h, f, Len(heap)) :
                \E o \in {update(h, self, a, plain)} :
                    /\ plain => isMapping(h, a.tree)
                    /\ heap' = o.h
                    /\ call' = [op |-> "update", key |-> NoKey, value |-> NoneVal,
                                r |-> o.r, pre |-> h, src |-> a, plain |-> plain]
                    /\ UNCHANGED <<root, self>>

\* self[key] = value
ViewSetItem ==
    /\ call.op = "new"
    /\ \E key \in Keys, w \in Written(heap) :
        LET o == __setitem__(w.h, self, key, w.r.val)
        IN /\ heap' = o.h
           /\ call' = [op |-> "__setitem__", key |-> key, value |-> w.r.val,
                       r |-> o.r, pre |-> w.h]
           /\ UNCHANGED <<root, self>>

\* fspathtree.normalize_path(key)
NormalizePath ==
    /\ call.op = "new"
    /\ \E key \in Keys :
        /\ call' = [op |-> "normalize_path", key |-> key, value |-> NoneVal,
                    r |-> normalize_path(_make_path(key)), pre |-> heap]
        /\ UNCHANGED <<heap, root, self>>

\* fspathtree._normalize_path_parts(parts), parts a list of path elements
NormalizeParts ==
    /\ call.op = "new"
    /\ \E parts \in PartsLists :
        /\ call' = [op |-> "_normalize_path_parts",
                    key |-> [abs |-> FALSE, toks |-> parts], value |-> NoneVal,
                    r |-> _normalize_path_parts(parts), pre |-> heap]
        /\ UNCHANGED <<heap, root, self>>

Next ==
    \/ GetItem \/ SetItem \/ ViewGetItem \/ ViewSetItem
    \/ NormalizePath \/ NormalizeParts

Spec == Init /\ [][Next]_vars

\* the dict-like methods of a View: get and update
NextMapping == ViewGet \/ Update

SpecMapping == Init /\ [][NextMapping]_vars

\* the values that are neither a map nor a sequence: a number, None
Leaves == {IntVal(5), NoneVal}

\* t = fspathtree(5): the node handed to setitem is itself a leaf
InitLeaf ==
    \E x \in Leaves :
        /\ heap = <<>>
        /\ root = x
        /\ self = __init__(<<>>, x, x, RootPath).view
        /\ call = NoCall

NextLeaf == SetItem \/ ViewSetItem

SpecLeaf == InitLeaf /\ [][NextLeaf]_vars

\* the keys with segments that str.isnumeric() accepts and int() rejects
KeysWithSuperscript ==
    [abs : BOOLEAN, toks : SeqsUpTo(Segments \cup {superscript}, MaxLen)]

\* fspathtree.setitem(self.tree, key, value), any numeric character in key
SetItemNumeric ==
    /\ call.op = "new"
    /\ \E key \in KeysWithSuperscript, w \in Written(heap) :
        \E o \in {setitem(w.h, self.tree, key, w.r.val)} :
            /\ heap' = o.h
            /\ call' = [op |-> "setitem", key |-> key, value |-> w.r.val,
                        r |-> o.r, pre |-> w.h]
            /\ UNCHANGED <<root, self>>

\* self[key] = value, any numeric character in key
ViewSetItemNumeric ==
    /\ call.op = "new"
    /\ \E key \in KeysWithSuperscript, w \in Written(heap) :
        \E o \in {__setitem__(w.h, self, key, w.r.val)} :
            /\ heap' = o.h
            /\ call' = [op |-> "__setitem__", key |-> key, value |-> w.r.val,
                        r |-> o.r, pre |-> w.h]
            /\ UNCHANGED <<root, self>>

NextNumeric == SetItemNumeric \/ ViewSetItemNumeric

SpecNumeric == Init /\ [][NextNumeric]_vars

(***************************************************************************)
(* Enumeration and search: the trees, the callables and the calls          *)
(***************************************************************************)
\* {'one': 1, 'level1': {'two': 2, 'nums': [1, 2, 3],
\*                        'level2': {'three': 3, 'nums': [1, 2, 3]}}}
NineLeaves ==
    [root |-> Ref(1),
     heap |-> << dict(<<"one", "level1">>, <<IntVal(1), Ref(2)>>),
                 dict(<<"two", "nums", "level2">>, <<IntVal(2), Ref(3), Ref(4)>>),
                 list(<<IntVal(1), IntVal(2), IntVal(3)>>),
                 dict(<<"three", "nums">>, <<IntVal(3), Ref(5)>>),
                 list(<<IntVal(1), IntVal(2), IntVal(3)>>) >>]

\* {'one': 1, 'l2': {'one': 1, 'two': 2, 'l3': {'one': 1}}, 'll2': {'one': 11}}
Searching ==
    [root |-> Ref(1),
     heap |-> << dict(<<"one", "l2", "ll2">>, <<IntVal(1), Ref(2), Ref(4)>>),
                 dict(<<"one", "two", "l3">>, <<IntVal(1), IntVal(2), Ref(3)>>),
                 dict(<<"one">>, <<IntVal(1)>>),
                 dict(<<"one">>, <<IntVal(11)>>) >>]

\* {'a': {}, 'b': [[], 1]}: a tree with empty containers in it
Sparse ==
    [root |-> Ref(1),
     heap |-> << dict(<<"a", "b">>, <<Ref(2), Ref(3)>>),
                 dict(<<>>, <<>>),
                 list(<<Ref(4), IntVal(1)>>),
                 list(<<>>) >>]

WalkFixtures == {NineLeaves, Searching, Sparse, NestedDict, NestedList, EmptyTree}

\* transform: None, str, callables of one, two, three and no parameters
Transforms ==
    {NoCallable, Callable(1, "type"), Callable(1, "lambda p"),
     Callable(2, "lambda p, n"), Callable(3, "lambda a, b, c"), Callable(0, "lambda")}

\* predicate: None, callables of one, two and three parameters
Predicates ==
    {NoCallable, Callable(1, "lambda p"), Callable(2, "is_branch"),
     Callable(2, "is_leaf"), Callable(3, "lambda a, b, c")}

\* Longest pattern, in components, that a caller searches for.
MaxPattern == 2

PatternParts == {"one", "two", "l2", "l3", "a", "0", "*", "l*"}
Patterns ==
    [abs : BOOLEAN, parts : SeqsUpTo(PatternParts, MaxPattern) \ {<<>>}]

\* t = fspathtree(d), or the View t[q] of one of its branch nodes
InitWalk ==
    \E f \in WalkFixtures :
        LET t == __init__(f.heap, f.root, f.root, RootPath).view
            all == get_all_paths(f.heap, f.root, NoCallable, NoCallable, RootPath).out
        IN \E i \in DOMAIN all :
               LET r == __getitem__(f.heap, t, as_key(all[i].path))
               IN /\ r.exc = ""
                  /\ r.view # NoView
                  /\ heap = f.heap
                  /\ root = f.root
                  /\ self = r.view
                  /\ call = NoCall

\* the root_path of a call: the bound method's, or the static default PathType()
RootPathOf(static) ==
    IF static THEN PathType(FALSE, <<>>) ELSE instance_root_path(heap, self)

\* list(self.get_all_paths(transform, predicate)), or the static method on self.tree
GetAllPaths ==
    /\ call.op = "new"
    /\ \E transform \in Transforms, predicate \in Predicates, static \in BOOLEAN :
        /\ call' = [op |-> "get_all_paths", key |-> NoKey, value |-> NoneVal,
                    r |-> IF static
                          THEN get_all_paths(heap, self.tree, transform, predicate,
                                             RootPathOf(static))
                          ELSE _instance_get_all_paths(heap, self, transform, predicate),
                    pre |-> heap, transform |-> transform, predicate |-> predicate,
                    root_path |-> RootPathOf(static), static |-> static]
        /\ UNCHANGED <<heap, root, self>>

\* list(self.get_all_leaf_node_paths(transform, predicate)), or the static method
GetAllLeafNodePaths ==
    /\ call.op = "new"
    /\ \E transform \in Transforms, predicate \in Predicates, static \in BOOLEAN :
        /\ call' = [op |-> "get_all_leaf_node_paths", key |-> NoKey, value |-> NoneVal,
                    r |-> IF static
                          THEN get_all_leaf_node_paths(heap, self.tree, transform,
                                                       predicate, RootPathOf(static))
                          ELSE _instance_get_all_leaf_node_paths(heap, self, transform,
                                                                 predicate),
                    pre |-> heap, transform |-> transform, predicate |-> predicate,
                    root_path |-> RootPathOf(static), static |-> static]
        /\ UNCHANGED <<heap, root, self>>

\* list(self.find(pattern)), or the static method
Find ==
    /\ call.op = "new"
    /\ \E pattern \in Patterns, static \in BOOLEAN :
        /\ call' = [op |-> "find", key |-> NoKey, value |-> NoneVal,
                    r |-> IF static
                          THEN find(heap, self.tree, pattern, FALSE, RootPathOf(static))
                          ELSE _instance_find(heap, self, pattern),
                    pre |-> heap, pattern |-> pattern,
                    root_path |-> RootPathOf(static), static |-> static]
        /\ UNCHANGED <<heap, root, self>>

NextWalk == GetAllPaths \/ GetAllLeafNodePaths \/ Find

SpecWalk == InitWalk /\ [][NextWalk]_vars

\* {'a': {'..': 1, 'b': [2]}}: a dict that was not written through a path and
\* has a key that a path reads as the parent reference
ParentKey ==
    [root |-> Ref(1),
     heap |-> << dict(<<"a">>, <<Ref(2)>>),
                 dict(<<up, "b">>, <<IntVal(1), Ref(3)>>),
                 list(<<IntVal(2)>>) >>]

\* t = fspathtree(d), d any of the trees above, or the View of one of its
\* branch nodes
InitWalkKeys ==
    \E f \in WalkFixtures \cup {ParentKey} :
        LET t == __init__(f.heap, f.root, f.root, RootPath).view
            all == get_all_paths(f.heap, f.root, NoCallable, NoCallable, RootPath).out
        IN \E i \in DOMAIN all :
               LET r == __getitem__(f.heap, t, as_key(all[i].path))
               IN /\ r.exc = ""
                  /\ r.view # NoView
                  /\ heap = f.heap
                  /\ root = f.root
                  /\ self = r.view
                  /\ call = NoCall

SpecWalkKeys == InitWalkKeys /\ [][NextWalk]_vars

(***************************************************************************)
(* Vocabulary of the claims                                                *)
(***************************************************************************)
NotFound == [found |-> FALSE, val |-> NoneVal]

\* The node that a normalized path names in the data model: a map is indexed
\* by key, a sequence by a numeric index below its length, and a leaf (a
\* scalar, None, a text string) has no children.
RECURSIVE NodeAt(_, _, _)
NodeAt(h, node, parts) ==
    IF parts = <<>> THEN [found |-> TRUE, val |-> node]
    ELSE IF node.t # "ref" THEN NotFound
    ELSE LET o == h[node.v]
             s == parts[1]
         IN IF o.type = "dict"
            THEN IF \E i \in DOMAIN o.keys : o.keys[i] = s
                 THEN NodeAt(h, o.vals[CHOOSE i \in DOMAIN o.keys : o.keys[i] = s],
                             Tail(parts))
                 ELSE NotFound
            ELSE IF s \in DOMAIN IntOf /\ IntOf[s] < Len(o.vals)
                 THEN NodeAt(h, o.vals[IntOf[s] + 1], Tail(parts))
                 ELSE NotFound

Prefix(parts, j) == SubSeq(parts, 1, j)
Suffix(parts, j) == SubSeq(parts, j, Len(parts))

IsBranch(x) == x.t = "ref"
IsList(h, x) == x.t = "ref" /\ h[x.v].type = "list"
IsDict(h, x) == x.t = "ref" /\ h[x.v].type = "dict"

\* A path goes above its starting point when, at one of its '..', it has seen
\* more '..' than segments that name a child.
GoesAbove(parts) ==
    \E i \in DOMAIN parts :
        /\ parts[i] = up
        /\ Cardinality({j \in 1 .. i : parts[j] = up})
               > Cardinality({j \in 1 .. i : parts[j] \notin {up, current}})

\* The segments of the last call's key as pathlib parses them.
KeySegments == _make_path(call.key).parts

\* normalize(A/k): the View's abspath joined with the last call's key, its
\* segments below the root normalized.
Target ==
    LET p == join(self.abspath, _make_path(call.key))
        n == _normalize_path_parts(p.parts)
    IN [ok |-> n.ok, abs |-> n.ok /\ p.abs, parts |-> n.parts]

\* The View of the root.
RootView == [tree |-> root, abspath |-> RootPath, root |-> root]

\* The segments of the last call's key once '.' and '..' are resolved.
KeyParts == _normalize_path_parts(_make_path(call.key).parts)

\* The objects the last call created.
Created == (Len(call.pre) + 1) .. Len(heap)

C2_EscapeRetryRead ==
    (/\ call.op = "__getitem__"
     /\ self.abspath # RootPath
     /\ ~call.key.abs
     /\ GoesAbove(KeySegments)
     /\ Target.ok
     /\ NodeAt(call.pre, root, Target.parts).found)
    => /\ call.r.exc = ""
       /\ call.r.val = NodeAt(call.pre, root, Target.parts).val

\* C2, the targets below the root: the retry finds every one of them
C2_EscapeRetryReadBelowRoot ==
    (/\ call.op = "__getitem__"
     /\ self.abspath # RootPath
     /\ ~call.key.abs
     /\ GoesAbove(KeySegments)
     /\ Target.ok
     /\ Target.parts # <<>>
     /\ NodeAt(call.pre, root, Target.parts).found)
    => /\ call.r.exc = ""
       /\ call.r.val = NodeAt(call.pre, root, Target.parts).val

\* a read that left the View's node through '..' and came back to a sibling
C2_WitnessBelowRoot ==
    /\ call.op = "__getitem__"
    /\ self.abspath # RootPath
    /\ ~call.key.abs
    /\ GoesAbove(KeySegments)
    /\ Target.ok
    /\ Target.parts # <<>>
    /\ call.r.exc = ""
    /\ call.r.val = NodeAt(call.pre, root, Target.parts).val

(***************************************************************************)
(* C3  Going above the true root: a read or a write through a View with a  *)
(* relative key raises PathGoesAboveRoot when the View's abspath joined    *)
(* with the key goes above the root (for the View of the root: when the    *)
(* key's '..' go before its first segment), and the tree is left unchanged.*)
(***************************************************************************)
C3_AboveRootRaises ==
    (/\ call.op \in {"__getitem__", "__setitem__"}
     /\ ~call.key.abs
     /\ GoesAbove(self.abspath.parts \o KeySegments))
    => /\ call.r.exc = "PathGoesAboveRoot"
       /\ heap = call.pre

\* a write through a View below the root, with a key like '../../a'
C3_Witness ==
    /\ call.op = "__setitem__"
    /\ self.abspath # RootPath
    /\ ~call.key.abs
    /\ \E i \in DOMAIN KeySegments : KeySegments[i] \in Names
    /\ GoesAbove(self.abspath.parts \o KeySegments)
    /\ call.r.exc = "PathGoesAboveRoot"
    /\ heap = call.pre

(***************************************************************************)
(* C4  Leaf upgrade: when the path of a write continues past an existing   *)
(* scalar leaf (a number or a text string), the leaf is replaced inside    *)
(* its parent by a fresh branch, a sequence if the segment after the leaf  *)
(* is numeric and a map otherwise, that holds nothing of the old scalar,   *)
(* and the value is written inside the new branch.                         *)
(***************************************************************************)
\* the leaf at the first j segments of the path is upgraded by the last call
Upgraded(j) ==
    LET n == NodeAt(heap, self.tree, Prefix(KeyParts.parts, j))
        next == KeyParts.parts[j + 1]
    IN /\ call.r.exc = ""
       /\ n.found
       /\ IsBranch(n.val)
       /\ n.val.v \in Created
       /\ IsList(heap, n.val) <=> isnumeric(next)
       /\ IF isnumeric(next)
          THEN /\ Len(heap[n.val.v].vals) = IntOf[next] + 1
               /\ \A m \in 1 .. IntOf[next] : heap[n.val.v].vals[m] = NoneVal
          ELSE heap[n.val.v].keys = <<next>>
       /\ NodeAt(heap, self.tree, KeyParts.parts) = [found |-> TRUE, val |-> call.value]

\* the kinds of scalar leaf at the first j segments of the path before the call
LeafBefore(j, kinds) ==
    LET n == NodeAt(call.pre, self.tree, Prefix(KeyParts.parts, j))
    IN n.found /\ n.val.t \in kinds

C4_LeafUpgrade ==
    (call.op = "setitem" /\ KeyParts.ok)
    => \A j \in 1 .. (Len(KeyParts.parts) - 1) :
           LeafBefore(j, {"int", "str"}) => Upgraded(j)

\* C4, the leaves that are numbers: each of them is upgraded
C4_NumberLeafUpgrade ==
    (call.op = "setitem" /\ KeyParts.ok)
    => \A j \in 1 .. (Len(KeyParts.parts) - 1) :
           LeafBefore(j, {"int"}) => Upgraded(j)

\* a number, in a map or in a sequence, became a branch holding the value
C4_WitnessNumber ==
    /\ call.op = "setitem"
    /\ KeyParts.ok
    /\ \E j \in 1 .. (Len(KeyParts.parts) - 1) : LeafBefore(j, {"int"}) /\ Upgraded(j)

Max(a, b) == IF a > b THEN a ELSE b

\* the list that lies at the first j-1 segments of the path before the call
\* and is indexed by the j-th segment
ListBefore(j) ==
    LET n == NodeAt(call.pre, self.tree, Prefix(KeyParts.parts, j - 1))
    IN n.found /\ IsList(call.pre, n.val) /\ isnumeric(KeyParts.parts[j])

\* the list object id, n elements long before the call, extended for index i
Extended(id, n, i) ==
    LET before == IF id \in DOMAIN call.pre THEN call.pre[id].vals ELSE <<>>
        after == heap[id].vals
    IN /\ Len(after) = Max(n, i + 1)
       /\ \A m \in (n + 1) .. i : after[m] = NoneVal
       /\ \A m \in 1 .. n :
              m # i + 1 => value_of(heap, after[m]) = value_of(call.pre, before[m])

C6_SequenceAutoExtension ==
    (call.op = "setitem" /\ KeyParts.ok)
    => /\ call.r.exc \notin {"IndexError", "InvalidIndexError"}
          \/ KeyParts.parts = <<>>
       /\ \A j \in DOMAIN KeyParts.parts :
              ListBefore(j) =>
                  LET id == NodeAt(call.pre, self.tree, Prefix(KeyParts.parts, j - 1)).val.v
                  IN Extended(id, Len(call.pre[id].vals), IntOf[KeyParts.parts[j]])
       /\ \A id \in Created : \A j \in 1 .. (Len(KeyParts.parts) - 1) :
              (/\ heap[id].type = "list"
               /\ NodeAt(heap, self.tree, Prefix(KeyParts.parts, j)).val = Ref(id))
              => Extended(id, 0, IntOf[KeyParts.parts[j + 1]])

\* a one-element list written at index 2: padded at index 1, element 0 kept
C6_Witness ==
    /\ call.op = "setitem"
    /\ KeyParts.ok
    /\ call.r.exc = ""
    /\ \E j \in DOMAIN KeyParts.parts :
           /\ ListBefore(j)
           /\ LET id == NodeAt(call.pre, self.tree, Prefix(KeyParts.parts, j - 1)).val.v
              IN /\ Len(call.pre[id].vals) = 1
                 /\ Len(heap[id].vals) = 3
                 /\ heap[id].vals[1] = call.pre[id].vals[1]
                 /\ heap[id].vals[2] = NoneVal

(***************************************************************************)
(* C7  Text strings are leaves: a read whose path continues past a string  *)
(* raises NodeError, whether the next segment is numeric or not, and never *)
(* returns a character of the string; a write whose path continues past a  *)
(* string replaces the string with a branch and completes.                 *)
(***************************************************************************)
C7_StringsAreLeaves ==
    (call.op \in {"getitem", "setitem"} /\ KeyParts.ok)
    => \A j \in 0 .. (Len(KeyParts.parts) - 1) :
           LeafBefore(j, {"str"})
           => IF call.op = "getitem"
              THEN call.r.exc = "NodeError"
              ELSE /\ call.r.exc = ""
                   /\ IsBranch(NodeAt(heap, self.tree, Prefix(KeyParts.parts, j)).val)

(***************************************************************************)
(* C8  Navigation failures stay distinguishable at getitem: a missing map  *)
(* key raises KeyError, a non-numeric segment applied to a sequence raises *)
(* ValueError, a numeric index >= the length of a sequence raises          *)
(* InvalidIndexError and a descent past a leaf raises NodeError; for the   *)
(* first three the message holds the caller's original path and the        *)
(* offending segment.                                                      *)
(***************************************************************************)
\* the error for segment j of the path, its parent being the node at the
\* first j-1 segments
ExpectedError(j) ==
    LET n == NodeAt(call.pre, self.tree, Prefix(KeyParts.parts, j - 1))
        s == KeyParts.parts[j]
    IN IF ~n.found THEN ""
       ELSE IF IsDict(call.pre, n.val)
       THEN IF NodeAt(call.pre, n.val, <<s>>).found THEN "" ELSE "KeyError"
       ELSE IF IsList(call.pre, n.val)
       THEN IF ~isnumeric(s) THEN "ValueError"
            ELSE IF IntOf[s] >= Len(call.pre[n.val.v].vals) THEN "InvalidIndexError"
            ELSE ""
       ELSE "NodeError"

C8_DistinctFailures ==
    (call.op = "getitem" /\ KeyParts.ok)
    => \A j \in DOMAIN KeyParts.parts :
           ExpectedError(j) # ""
           => /\ call.r.exc = ExpectedError(j)
              /\ ExpectedError(j) # "NodeError"
                 => call.r.path = call.key /\ call.r.arg = KeyParts.parts[j]

\* C8, the paths that meet no text string: each failure has its own kind
C8_DistinctFailuresNoString ==
    (/\ call.op = "getitem"
     /\ KeyParts.ok
     /\ \A j \in 0 .. Len(KeyParts.parts) : ~LeafBefore(j, {"str"}))
    => \A j \in DOMAIN KeyParts.parts :
           ExpectedError(j) # ""
           => /\ call.r.exc = ExpectedError(j)
              /\ ExpectedError(j) # "NodeError"
                 => call.r.path = call.key /\ call.r.arg = KeyParts.parts[j]

(***************************************************************************)
(* C9  Result wrapping: a View read that resolves to a branch returns a    *)
(* new View on that very node, with the same root, whose path() is the     *)
(* normalized absolute path of the node from the root (the abspath joined  *)
(* with the key, the key itself when it is absolute); a read that resolves *)
(* to a leaf returns the raw value and no View.                            *)
(***************************************************************************)
C9_ResultWrapping ==
    (call.op = "__getitem__" /\ call.r.exc = "")
    => IF IsBranch(call.r.val)
       THEN /\ call.r.view.tree = call.r.val
            /\ call.r.view.root = self.root
            /\ path(call.r.view) = Target
            /\ Target.ok /\ Target.abs
            /\ NodeAt(call.pre, root, Target.parts) = [found |-> TRUE, val |-> call.r.val]
       ELSE call.r.view = NoView

\* a View below the root reads a branch through '..': the new View's abspath
\* holds the '..' and its path() does not
C9_Witness ==
    /\ call.op = "__getitem__"
    /\ call.r.exc = ""
    /\ self.abspath # RootPath
    /\ ~call.key.abs
    /\ IsBranch(call.r.val)
    /\ call.r.view.tree = call.r.val
    /\ \E i \in DOMAIN call.r.view.abspath.parts : call.r.view.abspath.parts[i] = up
    /\ path(call.r.view) = Target
    /\ Target.parts # <<>>

(***************************************************************************)
(* C10  Views alias the tree and hold no copy: after a completed write     *)
(* V[k] = v through a View V at abspath A, the target path (k when k is    *)
(* absolute, normalize(A/k) otherwise) reads back as v in the underlying   *)
(* container, through the View of the root, and through every other View   *)
(* of the tree, those made before the write included; a relative k that    *)
(* does not leave V's node is written under V's node, an absolute k under  *)
(* the root.                                                               *)
(***************************************************************************)
Reads(r, v) == r.exc = "" /\ r.val = v

\* the Views of the branch nodes at and below node, whose path is parts
RECURSIVE ViewsBelow(_, _, _)
ViewsBelow(h, node, parts) ==
    IF ~IsBranch(node) THEN {}
    ELSE LET o == h[node.v]
             seg(i) == IF o.type = "dict" THEN o.keys[i] ELSE StrOf(i - 1)
         IN {[tree |-> node, abspath |-> [abs |-> TRUE, parts |-> parts], root |-> root]}
            \cup UNION {ViewsBelow(h, o.vals[i], Append(parts, seg(i))) :
                            i \in DOMAIN o.vals}

\* the Views t[q] of all the branch nodes of the tree held in heap h
ViewsOf(h) == ViewsBelow(h, root, <<>>)

C10_ViewsAlias ==
    (call.op = "__setitem__" /\ call.r.exc = "")
    => /\ Target.ok
       /\ NodeAt(heap, root, Target.parts) = [found |-> TRUE, val |-> call.value]
       /\ Reads(__getitem__(heap, RootView, as_key(Target)), call.value)
       /\ \A W \in ViewsOf(call.pre) \cup ViewsOf(heap) :
              /\ Reads(__getitem__(heap, W, as_key(Target)), call.value)
              /\ \A j \in 0 .. (Len(Target.parts) - 1) :
                     (/\ W.abspath.parts = Prefix(Target.parts, j)
                      /\ NodeAt(heap, root, W.abspath.parts).val = W.tree)
                     => Reads(__getitem__(heap, W,
                                  [abs |-> FALSE, toks |-> Suffix(Target.parts, j + 1)]),
                              call.value)
       /\ (~call.key.abs /\ KeyParts.ok)
              => NodeAt(heap, self.tree, KeyParts.parts)
                     = [found |-> TRUE, val |-> call.value]

\* a write through a View that leaves the View's node by '..' is read back
\* through a View, made before the write, of the node that holds the target
C10_Witness ==
    /\ call.op = "__setitem__"
    /\ call.r.exc = ""
    /\ self.abspath # RootPath
    /\ ~call.key.abs
    /\ GoesAbove(KeySegments)
    /\ \E W \in ViewsOf(call.pre) :
           /\ W # self
           /\ W.abspath # RootPath
           /\ W.abspath.parts = Prefix(Target.parts, Len(Target.parts) - 1)
           /\ Reads(__getitem__(heap, W,
                        [abs |-> FALSE, toks |-> <<Target.parts[Len(Target.parts)]>>]),
                    call.value)

(***************************************************************************)
(* C11  Only the above-root signal triggers the retry: a relative key that *)
(* does not go above the View's node is resolved inside the View's subtree *)
(* only.  The outcome of the read or write is the outcome of the local     *)
(* resolution: a failure there (missing key, index out of range,           *)
(* non-numeric index, descent past a leaf) propagates with its kind, and   *)
(* the root is not consulted even when it holds the same key.              *)
(***************************************************************************)
C11_OnlyAboveRootRetries ==
    (/\ call.op \in {"__getitem__", "__setitem__"}
     /\ ~call.key.abs
     /\ ~GoesAbove(KeySegments))
    => IF call.op = "__getitem__"
       THEN LET local == getitem(call.pre, self.tree, call.key)
            IN /\ call.r.exc = local.exc
               /\ call.r.val = local.val
               /\ call.r.exc # "PathGoesAboveRoot"
               /\ \A j \in DOMAIN KeyParts.parts :
                      (/\ ExpectedError(j) # ""
                       /\ \A i \in 0 .. j : ~LeafBefore(i, {"str"}))
                      => call.r.exc = ExpectedError(j)
       ELSE LET local == setitem(call.pre, self.tree, call.key, call.value)
            IN /\ call.r.exc = local.r.exc
               /\ heap = local.h
               /\ call.r.exc # "PathGoesAboveRoot"

\* a View below the root misses a key that the root holds: KeyError
C11_Witness ==
    /\ call.op = "__getitem__"
    /\ self.abspath # RootPath
    /\ ~call.key.abs
    /\ ~GoesAbove(KeySegments)
    /\ KeySegments # <<>>
    /\ call.r.exc = "KeyError"
    /\ NodeAt(call.pre, root, KeySegments).found
    /\ ~NodeAt(call.pre, self.tree, KeySegments).found

(***************************************************************************)
(* C12  Resolution depends only on the normalized path: getitem(T, p)      *)
(* gives what getitem gives for the normalized segments of p (the same     *)
(* value or the same kind of error), and a relative path whose normalized  *)
(* segments are empty ('', '.', 'a/..') resolves to T itself, without      *)
(* error.                                                                  *)
(***************************************************************************)
\* the last call's key with its segments normalized
NormalizedKey == [abs |-> call.key.abs, toks |-> KeyParts.parts]

\* the last call, a getitem, gave what getitem gives for the normalized key
SameAsNormalized ==
    LET n == getitem(call.pre, self.tree, NormalizedKey)
    IN call.r.exc = n.exc /\ call.r.val = n.val

C12_NormalizedResolution ==
    (call.op = "getitem" /\ KeyParts.ok)
    => /\ SameAsNormalized
       /\ KeyParts.parts = <<>> => call.r.exc = "" /\ call.r.val = self.tree

\* C12, the paths whose normalized segments are not empty
C12_NormalizedResolutionNonEmpty ==
    (call.op = "getitem" /\ KeyParts.ok /\ KeyParts.parts # <<>>)
    => SameAsNormalized

\* a path with '..' in it resolves to the node its normalized segments name
C12_WitnessNonEmpty ==
    /\ call.op = "getitem"
    /\ KeyParts.ok
    /\ \E i \in DOMAIN KeySegments : KeySegments[i] = up
    /\ KeyParts.parts # <<>>
    /\ call.r.exc = ""
    /\ NodeAt(call.pre, self.tree, KeyParts.parts) = [found |-> TRUE, val |-> call.r.val]

(***************************************************************************)
(* C13  Normalization never silently clamps: for every path, relative or   *)
(* absolute, in which some '..' has no real segment left to cancel,        *)
(* normalize_path returns its failure result (None), _normalize_path_parts *)
(* returns None and navigation raises PathGoesAboveRoot.                   *)
(***************************************************************************)
C13_NeverClamps ==
    /\ (call.op = "normalize_path" /\ GoesAbove(KeySegments)) => ~call.r.ok
    /\ (call.op = "_normalize_path_parts" /\ GoesAbove(call.key.toks)) => ~call.r.ok
    /\ (call.op \in {"getitem", "setitem"} /\ GoesAbove(KeySegments))
           => call.r.exc = "PathGoesAboveRoot"

\* C13, all but normalize_path of an absolute path
C13_NeverClampsButAbsolute ==
    /\ (call.op = "normalize_path" /\ ~call.key.abs /\ GoesAbove(KeySegments))
           => ~call.r.ok
    /\ (call.op = "_normalize_path_parts" /\ GoesAbove(call.key.toks)) => ~call.r.ok
    /\ (call.op \in {"getitem", "setitem"} /\ GoesAbove(KeySegments))
           => call.r.exc = "PathGoesAboveRoot"

\* normalize_path fails on a relative path like 'a/../..'
C13_WitnessRelative ==
    /\ call.op = "normalize_path"
    /\ ~call.key.abs
    /\ \E i \in DOMAIN KeySegments : KeySegments[i] \in Names
    /\ GoesAbove(KeySegments)
    /\ ~call.r.ok

(***************************************************************************)
(* C14  Normalization is idempotent and minimal: when normalization of a   *)
(* list of segments succeeds, normalizing the result gives the result      *)
(* again, and the result holds no '.' and no '..'; a list that holds       *)
(* neither is returned unchanged, as the general scan would return it.     *)
(* The same holds for normalize_path of a path.                            *)
(***************************************************************************)
Plain(parts) == \A i \in DOMAIN parts : parts[i] \notin {up, current}

C14_IdempotentMinimal ==
    /\ (call.op = "_normalize_path_parts" /\ call.r.ok)
           => /\ _normalize_path_parts(call.r.parts) = call.r
              /\ Plain(call.r.parts)
              /\ Plain(call.key.toks)
                     => /\ call.r.parts = call.key.toks
                        /\ scan_parts(call.key.toks, <<>>) = call.r
    /\ (call.op = "normalize_path" /\ call.r.ok)
           => /\ normalize_path([abs |-> call.r.abs, parts |-> call.r.parts]) = call.r
              /\ Plain(call.r.parts)
              /\ Plain(call.key.toks)
                     => call.r.parts = call.key.toks /\ call.r.abs = call.key.abs

\* ['b', '.', '..'] and the like: '.' and '..' are resolved, and stay resolved
C14_Witness ==
    /\ call.op = "_normalize_path_parts"
    /\ call.r.ok
    /\ \E i, j \in DOMAIN call.key.toks :
           call.key.toks[i] = up /\ call.key.toks[j] = current
    /\ Plain(call.r.parts)
    /\ _normalize_path_parts(call.r.parts) = call.r

(***************************************************************************)
(* Vocabulary of the claims on enumeration and search                      *)
(***************************************************************************)
\* every node at and below node, with its path from base, found by descent
\* through the containers of the heap
RECURSIVE NodesBelow(_, _, _)
NodesBelow(h, node, base) ==
    {[path |-> base, node |-> node]}
    \cup (IF ~IsBranch(node) THEN {}
          ELSE LET o == h[node.v]
                   seg(i) == IF o.type = "dict" THEN o.keys[i] ELSE StrOf(i - 1)
               IN UNION {NodesBelow(h, o.vals[i], child_path(base, seg(i))) :
                             i \in DOMAIN o.vals})

\* the nodes of the subtree that a call enumerates
Subtree == NodesBelow(call.pre, self.tree, call.root_path)

\* paths of the nodes that are neither maps nor sequences
LeafPaths == {n.path : n \in {m \in Subtree : ~IsBranch(m.node)}}

\* paths of the nodes that have no children: the leaves and the empty containers
ChildlessPaths ==
    {n.path : n \in {m \in Subtree :
                         ~IsBranch(m.node) \/ call.pre[m.node.v].vals = <<>>}}

\* what a call yielded: the paths, as a sequence and as a set
YieldedPaths == [i \in DOMAIN call.r.out |-> call.r.out[i].path]
Yielded == {call.r.out[i].path : i \in DOMAIN call.r.out}

\* a transform that the enumeration supports: None, a type, or one or two parameters
Supported(transform) ==
    transform = NoCallable \/ transform.fn = "type" \/ transform.arity \in {1, 2}

LeafEnumeration ==
    /\ call.op = "get_all_leaf_node_paths"
    /\ call.predicate = NoCallable
    /\ Supported(call.transform)

\* C15 as stated: with no predicate, get_all_leaf_node_paths yields exactly
\* once the path of every node that has no children, and their number.  An
\* empty map or sequence has no children and is not yielded.
C15_ChildlessYielded ==
    LeafEnumeration
    => /\ Yielded = ChildlessPaths
       /\ Len(call.r.out) = Cardinality(ChildlessPaths)

\* C15, amended: with no predicate, get_all_leaf_node_paths yields exactly
\* once the path of every leaf of the subtree, a leaf being a value that is
\* neither a map nor a sequence, and nothing else; the 9-leaf tree yields 9.
C15_LeavesYielded ==
    LeafEnumeration
    => /\ call.r.exc = ""
       /\ Yielded = LeafPaths
       /\ Len(call.r.out) = Cardinality(LeafPaths)
       /\ (call.pre = NineLeaves.heap /\ self.tree = NineLeaves.root)
              => Len(call.r.out) = 9

\* the nine leaves of the 9-leaf tree are enumerated
C15_Witness ==
    /\ LeafEnumeration
    /\ call.pre = NineLeaves.heap
    /\ self.tree = NineLeaves.root
    /\ Len(call.r.out) = 9
    /\ Cardinality(LeafPaths) = 9

FullEnumeration ==
    /\ call.op = "get_all_paths"
    /\ call.predicate = NoCallable
    /\ Supported(call.transform)

\* the place of the child named seg among the children of node: the index
\* in a sequence, the place of the key in the iteration order of a map
ChildPos(h, node, seg) ==
    IF IsDict(h, node) THEN key_pos(h[node.v].keys, seg, 1) ELSE IntOf[seg] + 1

\* the number of leading parts that two lists of parts share
RECURSIVE Common(_, _)
Common(a, b) ==
    IF a = <<>> \/ b = <<>> \/ a[1] # b[1] THEN 0
    ELSE 1 + Common(Tail(a), Tail(b))

\* a is a node above b, or below the common ancestor of the two the child
\* that leads to a comes before the child that leads to b
Before(a, b) ==
    LET k == Common(a.parts, b.parts)
    IN IF k = Len(a.parts) THEN k < Len(b.parts)
       ELSE IF k = Len(b.parts) THEN FALSE
       ELSE LET parent == NodeAt(call.pre, self.tree,
                                 SubSeq(a.parts, Len(call.root_path.parts) + 1, k)).val
            IN ChildPos(call.pre, parent, a.parts[k + 1])
                   < ChildPos(call.pre, parent, b.parts[k + 1])

\* C16: with no predicate, get_all_paths yields the path of every node of
\* the subtree exactly once, the base path of the start node first, a
\* branch before its descendants, the children of a sequence in index
\* order and the children of a map in the map's iteration order, each child
\* under its index or key.
C16_PreOrder ==
    FullEnumeration
    => /\ call.r.exc = ""
       /\ Yielded = {n.path : n \in Subtree}
       /\ Len(call.r.out) = Cardinality(Subtree)
       /\ YieldedPaths[1] = call.root_path
       /\ \A i, j \in DOMAIN YieldedPaths :
              i < j => Before(YieldedPaths[i], YieldedPaths[j])

\* a walk over a tree that holds a map and a sequence of several children each
C16_Witness ==
    /\ FullEnumeration
    /\ call.r.exc = ""
    /\ \E m, n \in Subtree :
           /\ IsDict(call.pre, m.node) /\ Len(call.pre[m.node.v].vals) > 1
           /\ IsList(call.pre, n.node) /\ Len(call.pre[n.node.v].vals) > 1
           /\ Len(n.path.parts) > 1

\* a callable whose arity the enumeration does not support
BadArity(c) == c # NoCallable /\ c.fn # "type" /\ c.arity \notin {1, 2}

Enumeration == call.op \in {"get_all_paths", "get_all_leaf_node_paths"}

\* the nodes whose path the call is to yield: those that pass the predicate
\* and, in the leaves-only mode, are leaves
Selected ==
    {n \in Subtree :
        /\ call.op = "get_all_leaf_node_paths" => ~IsBranch(n.node)
        /\ call.predicate.fn = "is_leaf" => ~IsBranch(n.node)
        /\ call.predicate.fn = "is_branch" => IsBranch(n.node)}

\* the call is given a callable of unsupported arity and would apply it
ArityError ==
    /\ Enumeration
    /\ \/ BadArity(call.predicate)
       \/ BadArity(call.transform) /\ Selected # {}

\* C17 as stated: an enumeration given a predicate or transform of
\* unsupported arity fails with RuntimeError where the callable would first
\* be applied, whatever encloses that node, and yields nothing more.  A
\* transform first applied below a sequence fails with another error.
C17_ArityErrorKept ==
    ArityError => call.r.exc = "RuntimeError" /\ call.r.out = <<>>

\* the error of a predicate, applied first to the start node, keeps its
\* kind; so does the error of a transform applied to the start node or in
\* a tree without sequences
C17_ArityErrorOutsideSequences ==
    (/\ ArityError
     /\ \/ BadArity(call.predicate)
        \/ [path |-> call.root_path, node |-> self.tree] \in Selected
        \/ \A n \in Subtree : ~IsList(call.pre, n.node))
    => call.r.exc = "RuntimeError" /\ call.r.out = <<>>

\* a predicate of three parameters fails the walk of a sequence at its start
C17_WitnessPredicate ==
    /\ ArityError
    /\ BadArity(call.predicate)
    /\ IsList(call.pre, self.tree)
    /\ call.r.exc = "RuntimeError"

\* a name matches a pattern component: the same name, or with one '*' in the
\* pattern a name that starts and ends as the pattern does
Glob(name, pat) ==
    LET stars == {k \in 1 .. Len(pat) : SubSeq(pat, k, k) = "*"}
    IN IF stars = {} THEN name = pat
       ELSE LET k == CHOOSE x \in stars : TRUE
                pre == SubSeq(pat, 1, k - 1)
                suf == SubSeq(pat, k + 1, Len(pat))
            IN /\ Len(name) >= Len(pre) + Len(suf)
               /\ SubSeq(name, 1, Len(pre)) = pre
               /\ SubSeq(name, Len(name) - Len(suf) + 1, Len(name)) = suf

\* the components of a path are its parts, the root '/' of an absolute path
\* being the first.  A relative pattern of k components matches the last k
\* components of the path; an absolute pattern matches an absolute path of
\* as many components.
Matches(pth, pattern) ==
    LET P == parts_of(pth)
        Q == parts_of(pattern)
        k == Len(Q)
    IN IF pattern.abs
       THEN /\ pth.abs
            /\ Len(P) = k
            /\ \A i \in 1 .. k : Glob(P[i], Q[i])
       ELSE /\ Len(P) >= k
            /\ \A i \in 1 .. k : Glob(P[Len(P) - k + i], Q[i])

\* the leaf-node paths of the subtree in the order of the leaf enumeration
LeafOrder ==
    LET g == get_all_leaf_node_paths(call.pre, self.tree, NoCallable, NoCallable,
                                     call.root_path)
    IN [i \in DOMAIN g.out |-> g.out[i].path]

\* a search of the tree of test_searching through its root View
SearchOf(abs, parts) ==
    /\ call.op = "find"
    /\ call.pre = Searching.heap
    /\ self.tree = Searching.root
    /\ ~call.static
    /\ call.pattern = [abs |-> abs, parts |-> parts]

\* C18: find(pattern) yields, in the order of the leaf enumeration, exactly
\* the leaf-node paths that match the pattern: the last k components for a
\* relative pattern of k components, the whole absolute path of as many
\* components for an absolute one.  On the tree of test_searching '/one'
\* yields 1 path, 'one' 4, 'l2/*' 2 and 'l*/one' 3.
C18_FindMatches ==
    call.op = "find"
    => /\ call.r.exc = ""
       /\ YieldedPaths = SelectSeq(LeafOrder, LAMBDA p : Matches(p, call.pattern))
       /\ Yielded \subseteq LeafPaths
       /\ SearchOf(TRUE, <<"one">>) => Len(call.r.out) = 1
       /\ SearchOf(FALSE, <<"one">>) => Len(call.r.out) = 4
       /\ SearchOf(FALSE, <<"l2", "*">>) => Len(call.r.out) = 2
       /\ SearchOf(FALSE, <<"l*", "one">>) => Len(call.r.out) = 3

\* 'l*/one' finds three of the five leaves of the tree of test_searching
C18_Witness ==
    /\ SearchOf(FALSE, <<"l*", "one">>)
    /\ Len(call.r.out) = 3
    /\ Len(LeafOrder) = 5

\* what self[key] gives for the key of the last call
Subscript == __getitem__(call.pre, self, call.key)

\* C20 as stated: get(path, default) returns self[path] when the path
\* resolves and default when the node does not exist, the missing step
\* being a map key or a sequence index beyond the length; other failures,
\* such as PathGoesAboveRoot, propagate.  An index beyond the length is not
\* answered with the default.
C20_DefaultWhenMissing ==
    call.op = "get"
    => /\ Subscript.exc = "" => call.r = Subscript
       /\ Subscript.exc \in {"KeyError", "InvalidIndexError"}
              => call.r = Return(call.value)
       /\ Subscript.exc \notin {"", "KeyError", "InvalidIndexError"}
              => call.r = Subscript

\* get answers a missing map key with the default, returns self[path] when
\* the path resolves and lets every other failure propagate
C20_DefaultWhenKeyMissing ==
    call.op = "get"
    => /\ Subscript.exc = "" => call.r = Subscript
       /\ Subscript.exc = "KeyError" => call.r = Return(call.value)
       /\ Subscript.exc \notin {"", "KeyError"} => call.r = Subscript

\* a key missing from a map below the root is answered with the default
C20_WitnessKey ==
    /\ call.op = "get"
    /\ Subscript.exc = "KeyError"
    /\ Len(KeySegments) > 1
    /\ call.r = Return(call.value)

(***************************************************************************)
(* Vocabulary of the claims on update                                      *)
(***************************************************************************)
Here == [abs |-> FALSE, parts |-> <<>>]

\* the leaves of the argument of the last update and of self before it, each
\* with its path from the node it is a leaf of
SrcLeaves == {n \in NodesBelow(call.pre, call.src.tree, Here) : ~IsBranch(n.node)}
SelfLeaves == {n \in NodesBelow(call.pre, self.tree, Here) : ~IsBranch(n.node)}

\* what self holds at a path after the call
SelfAt(parts) == NodeAt(heap, self.tree, parts)

\* the argument addresses a path when one of its leaf paths leads to it,
\* through it or to a node above it
Addressed(parts) ==
    \E n \in SrcLeaves :
        Common(n.path.parts, parts) \in {Len(n.path.parts), Len(parts)}

\* update(src) with src a tree: every leaf of src is in self at its path,
\* and every leaf of self that src does not address is kept
MergedByLeaf ==
    /\ \A n \in SrcLeaves : SelfAt(n.path.parts) = [found |-> TRUE, val |-> n.node]
    /\ \A m \in SelfLeaves :
           ~Addressed(m.path.parts)
           => SelfAt(m.path.parts) = [found |-> TRUE, val |-> m.node]

\* update(src) with src a plain map: every entry of src is now the entry of
\* self, so below a key of src self holds what src holds and nothing else;
\* the entries of self under other keys are kept
ReplacedWholesale ==
    LET d == call.pre[call.src.tree.v]
    IN /\ \A i \in DOMAIN d.keys :
              SelfAt(<<d.keys[i]>>) = [found |-> TRUE, val |-> d.vals[i]]
       /\ \A m \in SelfLeaves :
              IF \E i \in DOMAIN d.keys : d.keys[i] = m.path.parts[1]
              THEN SelfAt(m.path.parts)
                       = NodeAt(call.pre, call.src.tree, m.path.parts)
              ELSE SelfAt(m.path.parts) = [found |-> TRUE, val |-> m.node]

Updated == call.op = "update" /\ call.r.exc = ""

\* C19 as stated: update(src) with src a tree View copies every leaf path
\* of src into self, keeps the leaves of self that src does not address and
\* merges the branches present in both; with src a plain map a top-level
\* branch present in both is replaced by the branch of src.  Through a View
\* of a branch node the leaves of a root View src go to the root instead.
C19_UpdateAsymmetry ==
    Updated => IF call.plain THEN ReplacedWholesale ELSE MergedByLeaf

\* the same for every update but that of a View below the root with the
\* root View of another tree
C19_UpdateAsymmetryFromRoot ==
    (/\ Updated
     /\ call.plain \/ self.abspath = RootPath \/ call.src.abspath # RootPath)
    => IF call.plain THEN ReplacedWholesale ELSE MergedByLeaf

\* a tree merged into the root View: below a branch present in both, a leaf
\* of src is added next to a leaf of self that is kept
C19_WitnessMerged ==
    /\ Updated
    /\ ~call.plain
    /\ self.abspath = RootPath
    /\ \E n \in SrcLeaves, m \in SelfLeaves :
           /\ Len(n.path.parts) = 3
           /\ Len(m.path.parts) = 3
           /\ Prefix(n.path.parts, 2) = Prefix(m.path.parts, 2)
           /\ ~Addressed(m.path.parts)
           /\ SelfAt(m.path.parts) = [found |-> TRUE, val |-> m.node]
           /\ SelfAt(n.path.parts) = [found |-> TRUE, val |-> n.node]
           /\ ~NodeAt(call.pre, self.tree, n.path.parts).found

(***************************************************************************)
(* Vocabulary of the claims on the effects of a write                      *)
(***************************************************************************)
\* the tree a write starts from and the normalized path it writes at:
\* setitem works below the node it is given, a View write with an absolute
\* key or one that leaves the View's node by '..' below the root
WriteBase == IF call.op = "setitem" THEN self.tree ELSE root
WritePath == IF call.op = "setitem" THEN KeyParts ELSE Target

Write == call.op \in {"setitem", "__setitem__"}

\* one path is a prefix of the other
Related(p, q) == Common(p, q) \in {Len(p), Len(q)}

\* the nodes that resolved before the write, with their paths from the base
Before_Write == NodesBelow(call.pre, WriteBase, Here)

\* the node resolves after the write as before, to the same value
Unchanged(n) ==
    /\ NodeAt(heap, WriteBase, n.path.parts) = [found |-> TRUE, val |-> n.node]
    /\ value_of(heap, n.node) = value_of(call.pre, n.node)

\* C21: after a write that succeeds, every path that resolved before it and
\* is neither a prefix nor an extension of the normalized path written
\* resolves to the same value as before.
C21_SiblingsKept ==
    (Write /\ call.r.exc = "" /\ WritePath.ok)
    => \A n \in Before_Write :
           ~Related(n.path.parts, WritePath.parts) => Unchanged(n)

\* a write that adds to a branch which holds other entries, all of them kept
C21_Witness ==
    /\ Write
    /\ call.r.exc = ""
    /\ WritePath.ok
    /\ heap # call.pre
    /\ \E n \in Before_Write :
           /\ Len(n.path.parts) > 1
           /\ Len(WritePath.parts) > 1
           /\ n.path.parts[1] = WritePath.parts[1]
           /\ ~Related(n.path.parts, WritePath.parts)
           /\ Unchanged(n)


(***************************************************************************)
(* Writing below a root that is a leaf                                    *)
(***************************************************************************)
\* the node handed to setitem is a leaf and the path names a node below it
LeafRootWrite ==
    /\ call.op = "setitem"
    /\ is_leaf(call.pre, self.tree)
    /\ KeyParts.ok
    /\ KeyParts.parts # <<>>

\* C22: when the node passed to setitem is a leaf and the path has at least
\* one segment, setitem returns a new root container, a list if the first
\* segment is numeric and a map otherwise, in which the path resolves to the
\* written value
C22_RootUpgradeReturned ==
    LeafRootWrite
    => /\ call.r.exc = ""
       /\ call.r.val.t = "ref"
       /\ IsList(heap, call.r.val) <=> isnumeric(KeyParts.parts[1])
       /\ NodeAt(heap, call.r.val, KeyParts.parts)
              = [found |-> TRUE, val |-> call.value]

\* what the code does in this case: setitem completes and returns None, and
\* no object the caller holds has changed
C22_WriteLost ==
    LeafRootWrite
    => /\ call.r = Return(NoneVal)
       /\ \A i \in DOMAIN call.pre : heap[i] = call.pre[i]

C22_Witness ==
    /\ LeafRootWrite
    /\ Len(KeyParts.parts) > 1
    /\ call.r = Return(NoneVal)
    /\ Len(heap) > Len(call.pre)

(***************************************************************************)
(* Reading past a leaf                                                     *)
(***************************************************************************)
Read == call.op \in {"getitem", "__getitem__"}

\* a View reads from the root with an absolute key and, below the root, with
\* a relative key that goes above its own node; it reads from its node
\* otherwise
ReadFromRoot ==
    /\ call.op = "__getitem__"
    /\ call.key.abs \/ (~KeyParts.ok /\ self.abspath # RootPath)

\* the node the read starts at and the normalized path it follows from there
ReadBase == IF ReadFromRoot THEN root ELSE self.tree
ReadPath == IF ReadFromRoot /\ ~call.key.abs THEN Target ELSE KeyParts

\* the lengths of the prefixes of the read path that end at a number or None
\* with segments still remaining: at most one
PastLeaf ==
    {i \in 0 .. Len(ReadPath.parts) - 1 :
        LET n == NodeAt(call.pre, ReadBase, SubSeq(ReadPath.parts, 1, i))
        IN n.found /\ n.val.t \in {"int", "None"}}

\* no segment that remains after the first i is one of the first i
Distinct(parts, i) ==
    \A j \in 1 .. i, k \in i + 1 .. Len(parts) : parts[j] # parts[k]

\* C23: when a read descends past a leaf, it raises NodeError and the error
\* names as the failure location exactly the prefix of the normalized path
\* that was consumed to reach the leaf, for every path, also when a segment
\* name occurs more than once
C23_ErrorLocation ==
    (Read /\ ReadPath.ok)
    => \A i \in PastLeaf :
           /\ call.r.exc = "NodeError"
           /\ call.r.at = SubSeq(ReadPath.parts, 1, i)

\* the same for the paths in which no remaining segment repeats a consumed one
C23_ErrorLocationDistinct ==
    (Read /\ ReadPath.ok)
    => \A i \in PastLeaf :
           /\ call.r.exc = "NodeError"
           /\ Distinct(ReadPath.parts, i)
                  => call.r.at = SubSeq(ReadPath.parts, 1, i)

\* a read through a View below the root that leaves its node, reaches a leaf
\* two segments below the root and is reported there
C23_WitnessLocation ==
    /\ Read
    /\ ReadFromRoot
    /\ ~call.key.abs
    /\ ReadPath.ok
    /\ 2 \in PastLeaf
    /\ call.r.exc = "NodeError"
    /\ call.r.at = SubSeq(ReadPath.parts, 1, 2)

(***************************************************************************)
(* Writes that fail                                                        *)
(***************************************************************************)
FailedWrite == Write /\ call.r.exc # ""

\* C24: a failed write has no effect: whenever setitem or a View write
\* raises an error, the whole tree is exactly as it was before the call; no
\* padding, auto-created container or upgraded leaf of the failed attempt
\* remains
C24_FailedWriteNoEffect == FailedWrite => heap = call.pre

\* a failed write leaves the tree as it was unless it raised ValueError for
\* a segment that is numeric and not a decimal literal, below the first step
C24_FailedWriteDecimal ==
    (FailedWrite /\ heap # call.pre)
    => /\ call.r.exc = "ValueError"
       /\ WritePath.ok
       /\ \E i \in 2 .. Len(WritePath.parts) : WritePath.parts[i] = superscript

\* a View write that fails at a list two steps down with a segment that is
\* not numeric, the tree being as it was
C24_WitnessNoEffect ==
    /\ FailedWrite
    /\ call.op = "__setitem__"
    /\ call.r.exc = "ValueError"
    /\ \A i \in DOMAIN call.key.toks : call.key.toks[i] # superscript
    /\ Len(WritePath.parts) > 2
    /\ heap = call.pre

(***************************************************************************)
(* Enumeration and navigation                                              *)
(***************************************************************************)
\* a bound enumeration that yields the paths themselves
BoundEnumeration == Enumeration /\ ~call.static /\ call.transform = NoCallable

\* the i-th path that the last call yielded, and self[path] for it
YieldedPath(i) == call.r.out[i].path
Navigated(i) == __getitem__(call.pre, self, as_key(YieldedPath(i)))

\* self[p] for the i-th yielded path p completes and gives the node that the
\* enumeration visited at p, a node of the subtree of self
Agree(i) ==
    /\ Navigated(i).exc = ""
    /\ \E n \in Subtree : n.path = YieldedPath(i) /\ Navigated(i).val = n.node

\* the paths are absolute for the View of the root and relative otherwise
Anchored(i) == YieldedPath(i).abs <=> (self.abspath = RootPath)

\* no map of the tree has a key that a path reads as a reference to the
\* parent or to the node itself
PlainKeys ==
    \A x \in DOMAIN call.pre :
        \A k \in DOMAIN call.pre[x].keys : call.pre[x].keys[k] \notin {up, current}

\* C25 as stated: for every View V and every path p that V.get_all_paths()
\* or V.get_all_leaf_node_paths() yields, V[p] resolves without error to
\* the node the enumeration visited at p; the paths of the root View are
\* absolute, those of another View relative to its node.  A key '..' of a
\* map is yielded as a path that navigation reads as the parent.
C25_EnumerationNavigates ==
    BoundEnumeration
    => \A i \in DOMAIN call.r.out : Agree(i) /\ Anchored(i)

\* C25 for trees whose map keys are none of '.' and '..': every yielded path
\* p resolves through V[p], without error, to the node visited at p; the
\* paths of the root View are absolute, those of another View relative
C25_EnumerationNavigatesPlainKeys ==
    (BoundEnumeration /\ PlainKeys)
    => \A i \in DOMAIN call.r.out : Agree(i) /\ Anchored(i)

\* a View below the root enumerates a node two steps below itself, a branch,
\* with a relative path, and its subscript gives a View of that node
C25_Witness ==
    /\ BoundEnumeration
    /\ PlainKeys
    /\ self.abspath # RootPath
    /\ \E i \in DOMAIN call.r.out :
           /\ Len(YieldedPath(i).parts) = 2
           /\ ~YieldedPath(i).abs
           /\ Agree(i)
           /\ Navigated(i).view # NoView
           /\ Navigated(i).view.tree \in {n.node : n \in Subtree}
====
